---- MODULE Spec2Model ----
(***************************************************************************)
(* atenea-hallo2: the speech cache of src/tts.ts, the worker supervision   *)
(* of src/video-generator.ts and the generate command of src/cli.ts, as    *)
(* state machines.                                                         *)
(*                                                                         *)
(* A file path is a sequence of its components; the names of the source    *)
(* are kept.  Variables marked "history" record what happened and are      *)
(* never read by an action's guard.                                        *)
(***************************************************************************)
EXTENDS Naturals, Integers, Sequences, FiniteSets, TLC

(* ---------------------------------------------------------------- bounds *)

\* Number of generateSpeech calls of one process (they may overlap).
NumCalls == 2
\* Number of chunks fs.writeFile needs for one synthesized buffer.
BufLen == 2

\* Number of chunks the worker writes to its two streams in one job.
MaxChunks == 3
\* Number of chunks a pipe holds before the worker's write blocks.
PipeCap == 2

\* Number of fingerprints computed and compared.
MaxHashes == 2

Calls == 1..NumCalls

(* ---------------------------------------------------------------- inputs *)

Texts == {"hi", "yo"}
Voices == {"nova"}
TtsModels == {"tts-1"}
OutputPaths == {<<"data", "audio", "temp.mp3">>, <<"out", "temp.mp3">>}

\* TTSOptions
TTSOptions == [text : Texts, voice : Voices, model : TtsModels, outputPath : OutputPaths]

\* The requests overlapping calls are made with: one (text, voice, model) for
\* either destination directory.  (The generate command below varies the text.)
Requests == {o \in TTSOptions : o.text = "hi"}

NoOptions == [text |-> "", voice |-> "", model |-> "", outputPath |-> <<>>]

(* ------------------------------------------------------- pure functions *)

\* path.dirname
dirname(p) == SubSeq(p, 1, Len(p) - 1)

\* path.join(dir, name)
join(dir, name) == Append(dir, name)

content_NoVoice(text, voice, model) == text \o "|" \o model

\* The pre-digest string of getTextHash.
content(text, voice, model) == text \o "|" \o voice \o "|" \o model

\* getTextHash: the digest is taken to be injective on the pre-digest string.
getTextHash(text, voice, model) == content(text, voice, model)

cachedPath_FixedDir(o) ==
    join(<<"data", "audio">>, "speech_" \o getTextHash(o.text, o.voice, o.model) \o ".mp3")

\* cachedPath of generateSpeech
cachedPath(o) ==
    join(dirname(o.outputPath), "speech_" \o getTextHash(o.text, o.voice, o.model) \o ".mp3")

CachePaths == {cachedPath(o) : o \in TTSOptions}

\* The buffer the remote collaborator returns for a request: BufLen chunks,
\* the same for the same (text, voice, model).
Synth(o) == [i \in 1..BufLen |-> <<getTextHash(o.text, o.voice, o.model), i>>]

\* A chunk of zero bytes.
ZeroChunk == <<"", 0>>

\* write(2) of one chunk at offset pos-1 of a regular file: a write past the
\* end zero-fills the gap.
WriteAt(data, pos, b) ==
    IF pos <= Len(data)
    THEN [data EXCEPT ![pos] = b]
    ELSE data \o [i \in 1..(pos - 1 - Len(data)) |-> ZeroChunk] \o <<b>>

NoFile == [exists |-> FALSE, data |-> <<>>]

Digits == <<"0", "1", "2", "3", "4", "5", "6", "7", "8", "9">>

\* Number.prototype.toString of a non-negative integer.
RECURSIVE toString(_)
toString(n) ==
    IF n < 10 THEN Digits[n + 1] ELSE toString(n \div 10) \o Digits[(n % 10) + 1]

KeyRequiredMsg ==
    "OPENAI_API_KEY environment variable is required. Please add it to your .env file."

\* The catch of generateSpeech: an Error is rethrown with a prefixed message.
Wrap(message) == "TTS generation failed: " \o message

(* ------------------------------------------------------------- variables *)

VARIABLES
    openaiClient,   \* FALSE: null, TRUE: the constructed client
    envKey,         \* process.env.OPENAI_API_KEY is set
    fs,             \* cache path -> [exists, data]
    dirs,           \* the directories that exist
    pc,             \* call -> position in generateSpeech
    opts,           \* call -> its TTSOptions
    found,          \* call -> fs.access succeeded
    buffer,         \* call -> the buffer to write
    off,            \* call -> chunks written so far by its writeFile
    res,            \* call -> what the call returned or threw
    after,          \* history: call -> the calls that had finished when it started
    remote,         \* history: call -> remote requests it sent
    built,          \* history: number of clients constructed
    hitData,        \* history: call -> contents of the file when its probe hit it
    keyAtMiss       \* history: call -> envKey and openaiClient when it missed

ttsVars == <<openaiClient, envKey, fs, dirs, pc, opts, found, buffer, off, res,
             after, remote, built, hitData, keyAtMiss>>

NoResult == [kind |-> "none"]
Returned(p) == [kind |-> "path", path |-> p]
\* throw new Error(m)
Thrown(m) == [kind |-> "throw", name |-> "Error", message |-> m]

Finished == {c \in Calls : pc[c] \in {"returned", "thrown"}}

TtsInit ==
    /\ openaiClient = FALSE
    /\ envKey \in BOOLEAN
    /\ fs = [p \in CachePaths |-> NoFile]
    /\ dirs = {}
    /\ pc = [c \in Calls |-> "idle"]
    /\ opts = [c \in Calls |-> NoOptions]
    /\ found = [c \in Calls |-> FALSE]
    /\ buffer = [c \in Calls |-> <<>>]
    /\ off = [c \in Calls |-> 0]
    /\ res = [c \in Calls |-> NoResult]
    /\ after = [c \in Calls |-> {}]
    /\ remote = [c \in Calls |-> 0]
    /\ built = 0
    /\ hitData = [c \in Calls |-> <<>>]
    /\ keyAtMiss = [c \in Calls |-> <<>>]

(* ------------------------------------------------------ generateSpeech *)

\* The environment of the process changes (dotenv, the caller).
SetEnvKey(v) ==
    /\ envKey # v
    /\ envKey' = v
    /\ UNCHANGED <<openaiClient, fs, dirs, pc, opts, found, buffer, off, res,
                   after, remote, built, hitData, keyAtMiss>>

\* generateSpeech(options) up to the await of fs.access.  Calls are numbered
\* in the order they start.
Call(c, o) ==
    /\ pc[c] = "idle"
    /\ \A d \in Calls : d < c => pc[d] # "idle"
    /\ pc' = [pc EXCEPT ![c] = "access"]
    /\ opts' = [opts EXCEPT ![c] = o]
    /\ after' = [after EXCEPT ![c] = Finished]
    /\ UNCHANGED <<openaiClient, envKey, fs, dirs, found, buffer, off, res,
                   remote, built, hitData, keyAtMiss>>

AccessProbe_OutputPath(path) == FALSE

\* fs.access(cachedPath) is carried out: it succeeds iff the file exists.
AccessProbe(path) == fs[path].exists

Access_Throws(c) ==
    /\ pc[c] = "access"
    /\ found' = [found EXCEPT ![c] = AccessProbe(cachedPath(opts[c]))]
    /\ hitData' = [hitData EXCEPT ![c] = fs[cachedPath(opts[c])].data]
    /\ IF AccessProbe(cachedPath(opts[c]))
       THEN pc' = [pc EXCEPT ![c] = "accessed"] /\ res' = res
       ELSE /\ pc' = [pc EXCEPT ![c] = "thrown"]
            /\ res' = [res EXCEPT ![c] = Thrown("ENOENT: no such file or directory, access")]
    /\ UNCHANGED <<openaiClient, envKey, fs, dirs, opts, buffer, off,
                   after, remote, built, keyAtMiss>>

Access(c) ==
    /\ pc[c] = "access"
    /\ found' = [found EXCEPT ![c] = AccessProbe(cachedPath(opts[c]))]
    /\ hitData' = [hitData EXCEPT ![c] = fs[cachedPath(opts[c])].data]
    /\ pc' = [pc EXCEPT ![c] = "accessed"]
    /\ UNCHANGED <<openaiClient, envKey, fs, dirs, opts, buffer, off, res,
                   after, remote, built, keyAtMiss>>

\* Cache hit: return cachedPath.
Hit(c) ==
    /\ pc[c] = "accessed"
    /\ found[c]
    /\ pc' = [pc EXCEPT ![c] = "returned"]
    /\ res' = [res EXCEPT ![c] = Returned(cachedPath(opts[c]))]
    /\ UNCHANGED <<openaiClient, envKey, fs, dirs, opts, found, buffer, off,
                   after, remote, built, hitData, keyAtMiss>>

ClientThrows_NoCheck == FALSE

ClientThrows_Recheck == ~envKey

\* getOpenAIClient throws: no client yet and no key.
ClientThrows == ~openaiClient /\ ~envKey

\* Cache miss, getOpenAIClient throws: the catch rethrows it wrapped.
MissNoKey(c) ==
    /\ pc[c] = "accessed"
    /\ ~found[c]
    /\ ClientThrows
    /\ keyAtMiss' = [keyAtMiss EXCEPT ![c] = <<envKey, openaiClient>>]
    /\ pc' = [pc EXCEPT ![c] = "thrown"]
    /\ res' = [res EXCEPT ![c] = Thrown(Wrap(KeyRequiredMsg))]
    /\ UNCHANGED <<openaiClient, envKey, fs, dirs, opts, found, buffer, off,
                   after, remote, built, hitData>>

MissRequest_NewClient(c) ==
    /\ pc[c] = "accessed"
    /\ ~found[c]
    /\ ~ClientThrows
    /\ keyAtMiss' = [keyAtMiss EXCEPT ![c] = <<envKey, openaiClient>>]
    /\ openaiClient' = TRUE
    /\ built' = built + 1
    /\ remote' = [remote EXCEPT ![c] = @ + 1]
    /\ pc' = [pc EXCEPT ![c] = "remote"]
    /\ UNCHANGED <<envKey, fs, dirs, opts, found, buffer, off, res, after, hitData>>

\* Cache miss, getOpenAIClient returns the client (constructing it when there
\* is none) and openai.audio.speech.create is sent.
MissRequest(c) ==
    /\ pc[c] = "accessed"
    /\ ~found[c]
    /\ ~ClientThrows
    /\ keyAtMiss' = [keyAtMiss EXCEPT ![c] = <<envKey, openaiClient>>]
    /\ openaiClient' = TRUE
    /\ built' = IF openaiClient THEN built ELSE built + 1
    /\ remote' = [remote EXCEPT ![c] = @ + 1]
    /\ pc' = [pc EXCEPT ![c] = "remote"]
    /\ UNCHANGED <<envKey, fs, dirs, opts, found, buffer, off, res, after, hitData>>

\* The collaborator answers; the buffer is taken and fs.mkdir is started.
RemoteReply(c) ==
    /\ pc[c] = "remote"
    /\ buffer' = [buffer EXCEPT ![c] = Synth(opts[c])]
    /\ pc' = [pc EXCEPT ![c] = "mkdir"]
    /\ UNCHANGED <<openaiClient, envKey, fs, dirs, opts, found, off, res,
                   after, remote, built, hitData, keyAtMiss>>

RemoteFail_Retry(c) ==
    /\ pc[c] = "remote"
    /\ pc' = [pc EXCEPT ![c] = "accessed"]
    /\ UNCHANGED <<openaiClient, envKey, fs, dirs, opts, found, buffer, off, res,
                   after, remote, built, hitData, keyAtMiss>>

\* The collaborator rejects (auth, quota, network).
RemoteFail(c) ==
    /\ pc[c] = "remote"
    /\ pc' = [pc EXCEPT ![c] = "thrown"]
    /\ res' = [res EXCEPT ![c] = Thrown(Wrap("401 Incorrect API key provided"))]
    /\ UNCHANGED <<openaiClient, envKey, fs, dirs, opts, found, buffer, off,
                   after, remote, built, hitData, keyAtMiss>>

\* fs.mkdir(outputDir, {recursive: true}) succeeds; fs.writeFile starts.
Mkdir(c) ==
    /\ pc[c] = "mkdir"
    /\ dirs' = dirs \cup {dirname(opts[c].outputPath)}
    /\ pc' = [pc EXCEPT ![c] = "open"]
    /\ UNCHANGED <<openaiClient, envKey, fs, opts, found, buffer, off, res,
                   after, remote, built, hitData, keyAtMiss>>

\* fs.mkdir fails.
MkdirFail(c) ==
    /\ pc[c] = "mkdir"
    /\ dirname(opts[c].outputPath) \notin dirs
    /\ pc' = [pc EXCEPT ![c] = "thrown"]
    /\ res' = [res EXCEPT ![c] = Thrown(Wrap("EACCES: permission denied, mkdir"))]
    /\ UNCHANGED <<openaiClient, envKey, fs, dirs, opts, found, buffer, off,
                   after, remote, built, hitData, keyAtMiss>>

\* What open(cachedPath, 'w') leaves at the path: the file, created or
\* truncated to no bytes.
Opened(file) == [exists |-> TRUE, data |-> <<>>]

\* fs.writeFile opens the file.
Open(c) ==
    /\ pc[c] = "open"
    /\ fs' = [fs EXCEPT ![cachedPath(opts[c])] = Opened(@)]
    /\ off' = [off EXCEPT ![c] = 0]
    /\ pc' = [pc EXCEPT ![c] = "write"]
    /\ UNCHANGED <<openaiClient, envKey, dirs, opts, found, buffer, res,
                   after, remote, built, hitData, keyAtMiss>>

\* fs.writeFile writes the next chunk at the descriptor's offset.
Write(c) ==
    /\ pc[c] = "write"
    /\ off[c] < Len(buffer[c])
    /\ fs' = [fs EXCEPT ![cachedPath(opts[c])].data =
                  WriteAt(@, off[c] + 1, buffer[c][off[c] + 1])]
    /\ off' = [off EXCEPT ![c] = @ + 1]
    /\ UNCHANGED <<openaiClient, envKey, dirs, pc, opts, found, buffer, res,
                   after, remote, built, hitData, keyAtMiss>>

\* A write fails (disk full): writeFile rejects, what was written stays.
WriteFail(c) ==
    /\ pc[c] = "write"
    /\ off[c] < Len(buffer[c])
    /\ pc' = [pc EXCEPT ![c] = "thrown"]
    /\ res' = [res EXCEPT ![c] = Thrown(Wrap("ENOSPC: no space left on device, write"))]
    /\ UNCHANGED <<openaiClient, envKey, fs, dirs, opts, found, buffer, off,
                   after, remote, built, hitData, keyAtMiss>>

\* writeFile is done: return cachedPath.
Stored(c) ==
    /\ pc[c] = "write"
    /\ off[c] = Len(buffer[c])
    /\ pc' = [pc EXCEPT ![c] = "returned"]
    /\ res' = [res EXCEPT ![c] = Returned(cachedPath(opts[c]))]
    /\ UNCHANGED <<openaiClient, envKey, fs, dirs, opts, found, buffer, off,
                   after, remote, built, hitData, keyAtMiss>>

(* ----------------------------------------------------- the fingerprint *)

\* Tuples whose fields hold the separator.
HashTexts == {"a", "a|b"}
HashVoices == {"c", "b|c"}
HashModels == {"tts-1", "tts-1-hd"}

HashOptions ==
    [text : HashTexts, voice : HashVoices, model : HashModels, outputPath : OutputPaths]

VARIABLES
    hashes          \* history: what generateSpeech computed from its options, in order

hashVars == <<hashes>>

HashInit == hashes = <<>>

Fingerprint_Stateful(o) ==
    /\ Len(hashes) < MaxHashes
    /\ hashes' = Append(hashes,
                        [text |-> o.text, voice |-> o.voice, model |-> o.model,
                         outputPath |-> o.outputPath,
                         content |-> content(o.text, o.voice, o.model),
                         hash |-> getTextHash(o.text, o.voice, o.model)
                                      \o (IF openaiClient THEN "#" ELSE ""),
                         cachedPath |-> cachedPath(o),
                         client |-> openaiClient])

\* The head of generateSpeech: the hash of (text, voice, model) and the
\* cachedPath, computed in the current state of the process.
Fingerprint(o) ==
    /\ Len(hashes) < MaxHashes
    /\ hashes' = Append(hashes,
                        [text |-> o.text, voice |-> o.voice, model |-> o.model,
                         outputPath |-> o.outputPath,
                         content |-> content(o.text, o.voice, o.model),
                         hash |-> getTextHash(o.text, o.voice, o.model),
                         cachedPath |-> cachedPath(o),
                         client |-> openaiClient])

\* getOpenAIClient constructs the client.
GetClient ==
    /\ ~openaiClient
    /\ ~ClientThrows
    /\ built < NumCalls
    /\ openaiClient' = TRUE
    /\ built' = built + 1
    /\ UNCHANGED <<envKey, fs, dirs, pc, opts, found, buffer, off, res,
                   after, remote, hitData, keyAtMiss>>

\* The process ends and a new one starts: the module state is initial again.
Restart(key) ==
    /\ openaiClient
    /\ openaiClient' = FALSE
    /\ envKey' = key
    /\ UNCHANGED <<fs, dirs, pc, opts, found, buffer, off, res,
                   after, remote, built, hitData, keyAtMiss>>

(* ------------------------------------------------------- generateVideo *)

VideoOutputs == {"output.mp4", "clip.mp4"}

\* An optional field of GenerateVideoParams: <<>> when it is not given, <<n>>
\* when it is n.  (lipWeight and cfgScale take whole values here.)
Undefined == <<>>
Num(n) == <<n>>

\* GenerateVideoParams
VideoParams ==
    [imagePath : {"avatar.png"}, audioPath : {"speech.mp3"},
     outputPath : VideoOutputs, fps : {Undefined, Num(30)}, steps : {Undefined, Num(50)},
     lipWeight : {Undefined, Num(2)}, cfgScale : {Undefined, Num(4)}]

NoParams ==
    [imagePath |-> "", audioPath |-> "", outputPath |-> "", fps |-> Undefined,
     steps |-> Undefined, lipWeight |-> Undefined, cfgScale |-> Undefined]

\* The default of a destructured field: { fps = 25, steps = 40 } = params
OrDefault(v, d) == IF v = Undefined THEN d ELSE v[1]

pythonScript == "python/hallo2_inference.py"
venvPython == "venv/bin/python3"

\* args of generateVideo
Args(params) ==
    <<pythonScript,
      "--image", params.imagePath,
      "--audio", params.audioPath,
      "--output", params.outputPath,
      "--fps", toString(OrDefault(params.fps, 25)),
      "--steps", toString(OrDefault(params.steps, 40))>>

\* What spawn(venvPython, [pythonScript, ...]) meets: the interpreter starts
\* ("ok"), venv/bin/python3 is missing ("ENOENT") or not executable
\* ("EACCES"), or the interpreter starts and hallo2_inference.py is missing
\* ("noScript": python3 reports it on stderr and exits with code 2).
Faults == {"ok", "ENOENT", "EACCES", "noScript"}

\* The exit status the close event carries: <<n>> for exit code n, <<>> for
\* null (the child was ended by a signal).
Code(n) == <<n>>
NullCode == <<>>
WorkerCodes == {Code(0), Code(1), NullCode}

\* The text of the worker's n-th chunk.
ChunkText(n) == <<"1;", "2;\n", "3;", " ", "5;">>[n]

\* text.trim(), on the texts of ChunkText.
trim(text) ==
    CASE text = "2;\n" -> "2;"
      [] text = " " -> ""
      [] OTHER -> text

Pending == [state |-> "pending"]
NoPromise == [state |-> "none"]
\* resolve(outputPath)
Resolved(path) == [state |-> "fulfilled", kind |-> "success", value |-> path]
\* reject(new Error(`Video generation failed with code ${code}\nStderr: ${stderr}`))
ExitFailure(code, text) ==
    [state |-> "rejected", kind |-> "exit", code |-> code, stderr |-> text]
\* reject(new Error(`Failed to spawn Python process: ${error.message}`))
SpawnFailure(message) ==
    [state |-> "rejected", kind |-> "spawn", message |-> message]

Settle_Overwrite(p, outcome) == outcome

\* resolve and reject of a Promise: only the first call settles it.
Settle(p, outcome) == IF p.state = "pending" THEN outcome ELSE p

IsSuccess_Falsy(code) == code \in {Code(0), NullCode}

\* The close handler's test, code === 0.
IsSuccess(code) == code = Code(0)

VARIABLES
    promise,        \* the Promise generateVideo returns
    job,            \* its params
    args,           \* the argument vector spawn was called with
    fault,          \* what spawn meets
    child,          \* "none", "running", "exited", "spawnFailed"
    exitCode,       \* the status of the child, once it has one
    outPipe,        \* chunks written to stdout and not yet read
    errPipe,        \* chunks written to stderr and not yet read
    stdout,         \* the stdout accumulator
    stderr,         \* the stderr accumulator
    errorEmitted,   \* the 'error' event was emitted
    closeEmitted,   \* the 'close' event was emitted
    outputExists,   \* the worker wrote the file at outputPath
    written,        \* history: chunks the worker has written
    wroteErr,       \* history: what the worker wrote to stderr, concatenated
    wroteOut,       \* history: what the worker wrote to stdout, concatenated
    transitions,    \* history: the outcomes the promise took, in order
    attempts,       \* history: calls of resolve and reject
    sink,           \* the console: what the data handlers printed, in order
    sent,           \* history: <<stream, chunk>> the worker wrote, in order
    spawns          \* history: calls of spawn

videoVars == <<promise, job, args, fault, child, exitCode, outPipe, errPipe, stdout, stderr,
               errorEmitted, closeEmitted, outputExists, written, wroteErr, wroteOut,
               transitions, attempts, sink, sent, spawns>>

VideoInit ==
    /\ promise = NoPromise
    /\ job = NoParams
    /\ args = <<>>
    /\ fault = "ok"
    /\ child = "none"
    /\ exitCode = NullCode
    /\ outPipe = <<>>
    /\ errPipe = <<>>
    /\ stdout = ""
    /\ stderr = ""
    /\ errorEmitted = FALSE
    /\ closeEmitted = FALSE
    /\ outputExists = FALSE
    /\ written = 0
    /\ wroteErr = ""
    /\ wroteOut = ""
    /\ transitions = <<>>
    /\ attempts = 0
    /\ sink = <<>>
    /\ sent = <<>>
    /\ spawns = 0

\* generateVideo(params): spawn and the registration of the four handlers.
GenerateVideo(params, f) ==
    /\ promise = NoPromise
    /\ promise' = Pending
    /\ job' = params
    /\ args' = Args(params)
    /\ fault' = f
    /\ child' = IF f \in {"ENOENT", "EACCES"} THEN "spawnFailed" ELSE "running"
    /\ spawns' = spawns + 1
    /\ UNCHANGED <<exitCode, outPipe, errPipe, stdout, stderr, errorEmitted,
                   closeEmitted, outputExists, written, wroteErr, wroteOut,
                   transitions, attempts, sink, sent>>

\* The worker writes a chunk to stdout; the write blocks while the pipe is full.
WorkerWriteOut ==
    /\ child = "running"
    /\ fault = "ok"
    /\ written < MaxChunks
    /\ Len(outPipe) < PipeCap
    /\ outPipe' = Append(outPipe, ChunkText(written + 1))
    /\ wroteOut' = wroteOut \o ChunkText(written + 1)
    /\ sent' = Append(sent, <<"stdout", ChunkText(written + 1)>>)
    /\ written' = written + 1
    /\ UNCHANGED <<promise, job, args, fault, child, exitCode, errPipe, stdout, stderr,
                   errorEmitted, closeEmitted, outputExists, wroteErr, transitions,
                   attempts, sink, spawns>>

\* The worker (or the interpreter) writes a chunk to stderr.
WorkerWriteErr ==
    /\ child = "running"
    /\ written < MaxChunks
    /\ Len(errPipe) < PipeCap
    /\ errPipe' = Append(errPipe, ChunkText(written + 1))
    /\ wroteErr' = wroteErr \o ChunkText(written + 1)
    /\ sent' = Append(sent, <<"stderr", ChunkText(written + 1)>>)
    /\ written' = written + 1
    /\ UNCHANGED <<promise, job, args, fault, child, exitCode, outPipe, stdout, stderr,
                   errorEmitted, closeEmitted, outputExists, wroteOut, transitions,
                   attempts, sink, spawns>>

\* The worker terminates: with an exit code or by a signal, having written
\* the output file or not.
WorkerExit(code, wrote) ==
    /\ child = "running"
    /\ fault = "noScript" => (code = Code(2) /\ ~wrote)
    /\ fault = "ok" => code \in WorkerCodes
    /\ child' = "exited"
    /\ exitCode' = code
    /\ outputExists' = wrote
    /\ UNCHANGED <<promise, job, args, fault, outPipe, errPipe, stdout, stderr,
                   errorEmitted, closeEmitted, written, wroteErr, wroteOut,
                   transitions, attempts,
                   sink, sent, spawns>>

StdoutData_Newest ==
    /\ promise # NoPromise
    /\ outPipe # <<>>
    /\ stdout' = stdout \o outPipe[Len(outPipe)]
    /\ sink' = Append(sink, <<"stdout", trim(outPipe[Len(outPipe)])>>)
    /\ outPipe' = SubSeq(outPipe, 1, Len(outPipe) - 1)
    /\ UNCHANGED <<promise, job, args, fault, child, exitCode, errPipe, stderr,
                   errorEmitted, closeEmitted, outputExists, written, wroteErr,
                   wroteOut, transitions, attempts, sent, spawns>>

\* process.stdout.on('data'): stdout += text; console.log(text.trim())
StdoutData ==
    /\ promise # NoPromise
    /\ outPipe # <<>>
    /\ stdout' = stdout \o Head(outPipe)
    /\ sink' = Append(sink, <<"stdout", trim(Head(outPipe))>>)
    /\ outPipe' = Tail(outPipe)
    /\ UNCHANGED <<promise, job, args, fault, child, exitCode, errPipe, stderr,
                   errorEmitted, closeEmitted, outputExists, written, wroteErr,
                   wroteOut, transitions, attempts, sent, spawns>>

StderrData_AfterStdout ==
    /\ promise # NoPromise
    /\ child = "exited"
    /\ outPipe = <<>>
    /\ errPipe # <<>>
    /\ stderr' = stderr \o Head(errPipe)
    /\ sink' = Append(sink, <<"stderr", trim(Head(errPipe))>>)
    /\ errPipe' = Tail(errPipe)
    /\ UNCHANGED <<promise, job, args, fault, child, exitCode, outPipe, stdout,
                   errorEmitted, closeEmitted, outputExists, written, wroteErr,
                   wroteOut, transitions, attempts, sent, spawns>>

\* process.stderr.on('data'): stderr += text; console.error(text.trim())
StderrData ==
    /\ promise # NoPromise
    /\ errPipe # <<>>
    /\ stderr' = stderr \o Head(errPipe)
    /\ sink' = Append(sink, <<"stderr", trim(Head(errPipe))>>)
    /\ errPipe' = Tail(errPipe)
    /\ UNCHANGED <<promise, job, args, fault, child, exitCode, outPipe, stdout,
                   errorEmitted, closeEmitted, outputExists, written, wroteErr,
                   wroteOut, transitions, attempts, sent, spawns>>

\* The errno of a failed spawn, which is also the code its close event carries.
Errno(f) == IF f = "ENOENT" THEN 0 - 2 ELSE 0 - 13

\* process.on('error'): a failed spawn emits 'error' on the next tick.
OnError ==
    /\ child = "spawnFailed"
    /\ ~errorEmitted
    /\ errorEmitted' = TRUE
    /\ exitCode' = Code(Errno(fault))
    /\ promise' = Settle(promise, SpawnFailure("spawn venv/bin/python3 " \o fault))
    /\ attempts' = attempts + 1
    /\ transitions' = IF promise' # promise THEN Append(transitions, promise')
                      ELSE transitions
    /\ UNCHANGED <<job, args, fault, child, outPipe, errPipe, stdout, stderr,
                   closeEmitted, outputExists, written, wroteErr, wroteOut,
                   sink, sent, spawns>>

CloseReady_Timeout == TRUE

CloseReady_OnExit ==
    \/ child = "exited"
    \/ child = "spawnFailed" /\ errorEmitted

\* 'close' is emitted once the child has ended and its stdio streams have
\* been read to their end; after a failed spawn it follows 'error'.
CloseReady ==
    \/ child = "exited" /\ outPipe = <<>> /\ errPipe = <<>>
    \/ child = "spawnFailed" /\ errorEmitted

\* The close handler's settlement.
CloseOutcome(code, path, text) ==
    IF IsSuccess(code) THEN Resolved(path) ELSE ExitFailure(code, text)

\* process.on('close')
OnClose ==
    /\ promise # NoPromise
    /\ ~closeEmitted
    /\ CloseReady
    /\ closeEmitted' = TRUE
    /\ promise' = Settle(promise, CloseOutcome(exitCode, job.outputPath, stderr))
    /\ attempts' = attempts + 1
    /\ transitions' = IF promise' # promise THEN Append(transitions, promise')
                      ELSE transitions
    /\ UNCHANGED <<job, args, fault, child, exitCode, outPipe, errPipe, stdout, stderr,
                   errorEmitted, outputExists, written, wroteErr, wroteOut,
                   sink, sent, spawns>>

(* ------------------------------------------------- the generate command *)

\* A command-line value is the sequence of its characters.
IsDigit(ch) == \E d \in DOMAIN Digits : Digits[d] = ch
DigitValue(ch) == (CHOOSE d \in DOMAIN Digits : Digits[d] = ch) - 1

RECURSIVE SkipSpaces(_)
SkipSpaces(s) == IF s # <<>> /\ Head(s) = " " THEN SkipSpaces(Tail(s)) ELSE s

\* The value of the longest prefix of digits, continuing from acc.
RECURSIVE LeadingValue(_, _)
LeadingValue(s, acc) ==
    IF s # <<>> /\ IsDigit(Head(s))
    THEN LeadingValue(Tail(s), 10 * acc + DigitValue(Head(s)))
    ELSE acc

NaN == <<>>

\* parseInt(s, 10): <<n>>, or NaN when no digit follows the optional sign.
parseInt(s) ==
    LET t == SkipSpaces(s)
        neg == t # <<>> /\ Head(t) = "-"
        u == IF t # <<>> /\ Head(t) \in {"-", "+"} THEN Tail(t) ELSE t
    IN  IF u = <<>> \/ ~IsDigit(Head(u)) THEN NaN
        ELSE IF neg THEN <<0 - LeadingValue(u, 0)>> ELSE <<LeadingValue(u, 0)>>

Invalid_NaNOnly(n) == n = <<>>

\* isNaN(n) || n <= 0
Invalid(n) == IF n = NaN THEN TRUE ELSE n[1] <= 0

\* The inputs of one run of the command: the text of the input file (<<>>:
\* the file cannot be read), whether the avatar exists, and the options.
CliInputs ==
    [inputText : {<<"hi">>, <<"yo">>, <<>>}, avatar : BOOLEAN, voice : Voices,
     output : {"output.mp4"}, fps : {<<"2", "5">>, <<"a">>}, steps : {<<"4", "0">>, <<"0">>}]

NoInputs ==
    [inputText |-> <<>>, avatar |-> FALSE, voice |-> "", output |-> "", fps |-> <<>>,
     steps |-> <<>>]

\* tempAudioPath
tempAudioPath == <<"data", "audio", "temp.mp3">>

\* textToSpeech(inputText, tempAudioPath) with TTS_VOICE = options.voice and
\* TTS_MODEL unset.
SpeechRequest(in) ==
    [text |-> in.inputText[1], voice |-> in.voice, model |-> "tts-1",
     outputPath |-> tempAudioPath]

VARIABLES
    run,            \* the number of the current run of the command (0: none yet)
    cpc,            \* position of the run in the generate action
    cliIn,          \* the run's inputs
    audioPath,      \* what textToSpeech returned
    exitStatus,     \* <<>> while running, else <<status>>
    reported,       \* the success report was printed
    exitedAt,       \* history: the step that called process.exit(1)
    stage2Failed    \* history: the runs whose generateVideo rejected

cliVars == <<run, cpc, cliIn, audioPath, exitStatus, reported, exitedAt, stage2Failed>>

CliInit ==
    /\ run = 0
    /\ cpc = "none"
    /\ cliIn = NoInputs
    /\ audioPath = <<>>
    /\ exitStatus = <<>>
    /\ reported = FALSE
    /\ exitedAt = "none"
    /\ stage2Failed = {}

\* process.exit(1)
Exit1(at) ==
    /\ cpc' = "exited"
    /\ exitStatus' = <<1>>
    /\ exitedAt' = at

\* The generate action validates the credential first.
KeyMissing == ~envKey

\* A new process runs the command: config(), then the action up to the
\* readFile, with the credential validated first.
CliStart(in, key) ==
    /\ cpc \in {"none", "exited", "done"}
    /\ run < NumCalls
    /\ run' = run + 1
    /\ cliIn' = in
    /\ envKey' = key
    /\ openaiClient' = FALSE
    /\ audioPath' = <<>>
    /\ reported' = FALSE
    /\ IF KeyMissing' THEN Exit1("credential")
       ELSE cpc' = "read" /\ exitStatus' = <<>> /\ exitedAt' = "none"
    /\ promise' = NoPromise /\ job' = NoParams /\ args' = <<>> /\ fault' = "ok" /\ child' = "none"
    /\ exitCode' = NullCode /\ outPipe' = <<>> /\ errPipe' = <<>>
    /\ stdout' = "" /\ stderr' = "" /\ errorEmitted' = FALSE /\ closeEmitted' = FALSE
    /\ outputExists' = FALSE /\ written' = 0 /\ wroteErr' = "" /\ wroteOut' = ""
    /\ transitions' = <<>> /\ attempts' = 0
    /\ sink' = <<>> /\ sent' = <<>> /\ spawns' = 0
    /\ UNCHANGED <<stage2Failed, fs, dirs, pc, opts, found, buffer, off, res, after, remote, built,
                   hitData, keyAtMiss>>

\* fs.readFile(inputPath) rejects: the catch exits with status 1.
CliReadFail ==
    /\ cpc = "read"
    /\ cliIn.inputText = <<>>
    /\ Exit1("catch")
    /\ UNCHANGED <<stage2Failed, run, cliIn, audioPath, reported, ttsVars, videoVars>>

\* The input text is loaded; fs.access(avatarPath) is awaited.
CliRead ==
    /\ cpc = "read"
    /\ cliIn.inputText # <<>>
    /\ cpc' = "avatar"
    /\ UNCHANGED <<stage2Failed, run, cliIn, audioPath, exitStatus, reported, exitedAt, ttsVars,
                   videoVars>>

\* The avatar image is missing.
CliAvatarMissing ==
    /\ cpc = "avatar"
    /\ ~cliIn.avatar
    /\ Exit1("avatar")
    /\ UNCHANGED <<stage2Failed, run, cliIn, audioPath, reported, ttsVars, videoVars>>

\* The avatar exists: textToSpeech is called and awaited.
CliSpeech ==
    /\ cpc = "avatar"
    /\ cliIn.avatar
    /\ cpc' = "speech"
    /\ Call(run, SpeechRequest(cliIn))
    /\ UNCHANGED <<stage2Failed, run, cliIn, audioPath, exitStatus, reported, exitedAt, videoVars>>

\* textToSpeech rejected: the catch exits with status 1.
CliSpeechFailed ==
    /\ cpc = "speech"
    /\ pc[run] = "thrown"
    /\ Exit1("catch")
    /\ UNCHANGED <<stage2Failed, run, cliIn, audioPath, reported, ttsVars, videoVars>>

\* textToSpeech returned and --fps or --steps is invalid.
CliInvalidNumber ==
    /\ cpc = "speech"
    /\ pc[run] = "returned"
    /\ ~(~Invalid(parseInt(cliIn.fps)) /\ ~Invalid(parseInt(cliIn.steps)))
    /\ audioPath' = res[run].path
    /\ Exit1(IF Invalid(parseInt(cliIn.fps)) THEN "fps" ELSE "steps")
    /\ UNCHANGED <<stage2Failed, run, cliIn, reported, ttsVars, videoVars>>

CliVideo_TempPath(f) ==
    /\ cpc = "speech"
    /\ pc[run] = "returned"
    /\ ~Invalid(parseInt(cliIn.fps))
    /\ ~Invalid(parseInt(cliIn.steps))
    /\ audioPath' = tempAudioPath
    /\ cpc' = "video"
    /\ GenerateVideo([imagePath |-> "avatar.png", audioPath |-> tempAudioPath,
                      outputPath |-> cliIn.output, fps |-> Num(parseInt(cliIn.fps)[1]),
                      steps |-> Num(parseInt(cliIn.steps)[1]),
                      lipWeight |-> Undefined, cfgScale |-> Undefined], f)
    /\ UNCHANGED <<stage2Failed, run, cliIn, exitStatus, reported, exitedAt, ttsVars>>

\* textToSpeech returned: generateVideo is called and awaited.
CliVideo(f) ==
    /\ cpc = "speech"
    /\ pc[run] = "returned"
    /\ ~Invalid(parseInt(cliIn.fps))
    /\ ~Invalid(parseInt(cliIn.steps))
    /\ audioPath' = res[run].path
    /\ cpc' = "video"
    /\ GenerateVideo([imagePath |-> "avatar.png", audioPath |-> res[run].path,
                      outputPath |-> cliIn.output, fps |-> Num(parseInt(cliIn.fps)[1]),
                      steps |-> Num(parseInt(cliIn.steps)[1]),
                      lipWeight |-> Undefined, cfgScale |-> Undefined], f)
    /\ UNCHANGED <<stage2Failed, run, cliIn, exitStatus, reported, exitedAt, ttsVars>>

CliVideoFailed_Swallow ==
    /\ cpc = "video"
    /\ promise.state = "rejected"
    /\ reported' = TRUE
    /\ cpc' = "done"
    /\ exitStatus' = <<0>>
    /\ UNCHANGED <<stage2Failed, run, cliIn, audioPath, exitedAt, ttsVars, videoVars>>

\* generateVideo rejected: the catch exits with status 1.
CliVideoFailed ==
    /\ cpc = "video"
    /\ promise.state = "rejected"
    /\ Exit1("catch")
    /\ stage2Failed' = stage2Failed \cup {run}
    /\ UNCHANGED <<run, cliIn, audioPath, reported, ttsVars, videoVars>>

\* generateVideo resolved: the success report, and the process ends.
CliSuccess ==
    /\ cpc = "video"
    /\ promise.state = "fulfilled"
    /\ reported' = TRUE
    /\ cpc' = "done"
    /\ exitStatus' = <<0>>
    /\ UNCHANGED <<stage2Failed, run, cliIn, audioPath, exitedAt, ttsVars, videoVars>>

(* -------------------------------------------------------- specifications *)

vars == <<ttsVars, videoVars, cliVars, hashVars>>

Init == TtsInit /\ VideoInit /\ CliInit /\ HashInit

\* Overlapping generateSpeech calls of one process.
Next ==
    \/ (\E v \in BOOLEAN : SetEnvKey(v)) /\ UNCHANGED <<videoVars, cliVars, hashVars>>
    \/ (\E c \in Calls, o \in Requests : Call(c, o)) /\ UNCHANGED <<videoVars, cliVars, hashVars>>
    \/ (\E c \in Calls : Access(c)) /\ UNCHANGED <<videoVars, cliVars, hashVars>>
    \/ (\E c \in Calls : Hit(c)) /\ UNCHANGED <<videoVars, cliVars, hashVars>>
    \/ (\E c \in Calls : MissNoKey(c)) /\ UNCHANGED <<videoVars, cliVars, hashVars>>
    \/ (\E c \in Calls : MissRequest(c)) /\ UNCHANGED <<videoVars, cliVars, hashVars>>
    \/ (\E c \in Calls : RemoteReply(c)) /\ UNCHANGED <<videoVars, cliVars, hashVars>>
    \/ (\E c \in Calls : RemoteFail(c)) /\ UNCHANGED <<videoVars, cliVars, hashVars>>
    \/ (\E c \in Calls : Mkdir(c)) /\ UNCHANGED <<videoVars, cliVars, hashVars>>
    \/ (\E c \in Calls : MkdirFail(c)) /\ UNCHANGED <<videoVars, cliVars, hashVars>>
    \/ (\E c \in Calls : Open(c)) /\ UNCHANGED <<videoVars, cliVars, hashVars>>
    \/ (\E c \in Calls : Write(c)) /\ UNCHANGED <<videoVars, cliVars, hashVars>>
    \/ (\E c \in Calls : WriteFail(c)) /\ UNCHANGED <<videoVars, cliVars, hashVars>>
    \/ (\E c \in Calls : Stored(c)) /\ UNCHANGED <<videoVars, cliVars, hashVars>>

Spec == Init /\ [][Next]_vars

\* One generateVideo call and its worker.
VideoStep ==
    \/ (\E params \in VideoParams, f \in Faults : GenerateVideo(params, f)) /\ UNCHANGED <<ttsVars, cliVars, hashVars>>
    \/ (WorkerWriteOut) /\ UNCHANGED <<ttsVars, cliVars, hashVars>>
    \/ (WorkerWriteErr) /\ UNCHANGED <<ttsVars, cliVars, hashVars>>
    \/ (\E code \in WorkerCodes \cup {Code(2)}, wrote \in BOOLEAN : WorkerExit(code, wrote)) /\ UNCHANGED <<ttsVars, cliVars, hashVars>>
    \/ (StdoutData) /\ UNCHANGED <<ttsVars, cliVars, hashVars>>
    \/ (StderrData) /\ UNCHANGED <<ttsVars, cliVars, hashVars>>
    \/ (OnError) /\ UNCHANGED <<ttsVars, cliVars, hashVars>>
    \/ (OnClose) /\ UNCHANGED <<ttsVars, cliVars, hashVars>>

VideoSpec == Init /\ [][VideoStep]_vars

\* The event loop delivers every pending event; the worker owes nothing.
VideoFairSpec ==
    /\ VideoSpec
    /\ WF_vars(StdoutData /\ UNCHANGED <<ttsVars, cliVars, hashVars>>)
    /\ WF_vars(StderrData /\ UNCHANGED <<ttsVars, cliVars, hashVars>>)
    /\ WF_vars(OnError /\ UNCHANGED <<ttsVars, cliVars, hashVars>>)
    /\ WF_vars(OnClose /\ UNCHANGED <<ttsVars, cliVars, hashVars>>)

\* Runs of the generate command, one process after the other, over the same
\* artifact directory.  MissNoKey is not among the steps: a run that reaches
\* textToSpeech has passed the credential validation of CliStart.
CliStep ==
    \/ (\E in \in CliInputs, key \in BOOLEAN : CliStart(in, key)) /\ UNCHANGED hashVars
    \/ (CliReadFail) /\ UNCHANGED hashVars
    \/ (CliRead) /\ UNCHANGED hashVars
    \/ (CliAvatarMissing) /\ UNCHANGED hashVars
    \/ (CliSpeech) /\ UNCHANGED hashVars
    \/ (CliSpeechFailed) /\ UNCHANGED hashVars
    \/ (CliInvalidNumber) /\ UNCHANGED hashVars
    \/ (\E f \in Faults : CliVideo(f)) /\ UNCHANGED hashVars
    \/ (CliVideoFailed) /\ UNCHANGED hashVars
    \/ (CliSuccess) /\ UNCHANGED hashVars
    \/ (cpc = "speech" /\ Access(run)) /\ UNCHANGED <<videoVars, cliVars, hashVars>>
    \/ (cpc = "speech" /\ Hit(run)) /\ UNCHANGED <<videoVars, cliVars, hashVars>>
    \/ (cpc = "speech" /\ MissRequest(run)) /\ UNCHANGED <<videoVars, cliVars, hashVars>>
    \/ (cpc = "speech" /\ RemoteReply(run)) /\ UNCHANGED <<videoVars, cliVars, hashVars>>
    \/ (cpc = "speech" /\ RemoteFail(run)) /\ UNCHANGED <<videoVars, cliVars, hashVars>>
    \/ (cpc = "speech" /\ Mkdir(run)) /\ UNCHANGED <<videoVars, cliVars, hashVars>>
    \/ (cpc = "speech" /\ MkdirFail(run)) /\ UNCHANGED <<videoVars, cliVars, hashVars>>
    \/ (cpc = "speech" /\ Open(run)) /\ UNCHANGED <<videoVars, cliVars, hashVars>>
    \/ (cpc = "speech" /\ Write(run)) /\ UNCHANGED <<videoVars, cliVars, hashVars>>
    \/ (cpc = "speech" /\ WriteFail(run)) /\ UNCHANGED <<videoVars, cliVars, hashVars>>
    \/ (cpc = "speech" /\ Stored(run)) /\ UNCHANGED <<videoVars, cliVars, hashVars>>
    \/ (cpc = "video" /\ WorkerWriteOut) /\ UNCHANGED <<ttsVars, cliVars, hashVars>>
    \/ (cpc = "video" /\ WorkerWriteErr) /\ UNCHANGED <<ttsVars, cliVars, hashVars>>
    \/ (cpc = "video" /\ \E code \in WorkerCodes \cup {Code(2)}, wrote \in BOOLEAN :
            WorkerExit(code, wrote)) /\ UNCHANGED <<ttsVars, cliVars, hashVars>>
    \/ (cpc = "video" /\ StdoutData) /\ UNCHANGED <<ttsVars, cliVars, hashVars>>
    \/ (cpc = "video" /\ StderrData) /\ UNCHANGED <<ttsVars, cliVars, hashVars>>
    \/ (cpc = "video" /\ OnError) /\ UNCHANGED <<ttsVars, cliVars, hashVars>>
    \/ (cpc = "video" /\ OnClose) /\ UNCHANGED <<ttsVars, cliVars, hashVars>>

CliSpec == Init /\ [][CliStep]_vars

\* The fingerprint of generateSpeech, computed for tuples that hold the
\* separator, in processes whose environment and client change.
HashStep ==
    \/ (\E o \in HashOptions : Fingerprint(o)) /\ UNCHANGED <<ttsVars, videoVars, cliVars>>
    \/ (\E v \in BOOLEAN : SetEnvKey(v)) /\ UNCHANGED <<videoVars, cliVars, hashVars>>
    \/ (GetClient) /\ UNCHANGED <<videoVars, cliVars, hashVars>>
    \/ (\E key \in BOOLEAN : Restart(key)) /\ UNCHANGED <<videoVars, cliVars, hashVars>>

HashSpec == Init /\ [][HashStep]_vars

(* ------------------------------------------------------------ properties *)

SameTuple(i, j) ==
    /\ opts[i].text = opts[j].text
    /\ opts[i].voice = opts[j].voice
    /\ opts[i].model = opts[j].model

Probed(c) == pc[c] \notin {"idle", "access"}

IsStrictPrefix(s, t) == Len(s) < Len(t) /\ s = SubSeq(t, 1, Len(s))

FileAt(p) == fs[p]

\* C1 as stated: of two sequential calls with the same (text, voice, model),
\* the later one is a cache hit and the two send at most one remote request.
C1_CacheAvoidance_Original ==
    \A i, j \in Calls :
        (i \in after[j] /\ SameTuple(i, j)) =>
            /\ remote[i] + remote[j] <= 1
            /\ Probed(j) => found[j]

\* C1 (amended): when the earlier call returned a path and both calls have
\* the same (text, voice, model) and the same destination directory, the
\* later call is a hit that returns the same path and sends no remote
\* request, so the two send at most one.
C1_CacheAvoidance ==
    \A i, j \in Calls :
        (/\ i \in after[j]
         /\ SameTuple(i, j)
         /\ dirname(opts[i].outputPath) = dirname(opts[j].outputPath)
         /\ res[i].kind = "path") =>
            /\ remote[i] + remote[j] <= 1
            /\ remote[j] = 0
            /\ Probed(j) => found[j]
            /\ pc[j] # "thrown"
            /\ pc[j] = "returned" => res[j] = res[i]

C1_Witness ==
    \E i, j \in Calls :
        /\ i \in after[j]
        /\ SameTuple(i, j)
        /\ dirname(opts[i].outputPath) = dirname(opts[j].outputPath)
        /\ res[i].kind = "path"
        /\ remote[i] = 1
        /\ pc[j] = "returned"

\* C2: a lookup never hits a file whose contents are a strict prefix of the
\* bytes stored for its fingerprint.
C2_AtomicStore ==
    \A c \in Calls :
        (Probed(c) /\ found[c]) => ~IsStrictPrefix(hitData[c], Synth(opts[c]))

\* C3: when two calls with the same fingerprint both miss and both write,
\* a path that has been returned holds the complete artifact from then on.
C3_BenignRace ==
    \A c, d \in Calls :
        (/\ c # d
         /\ cachedPath(opts[c]) = cachedPath(opts[d])
         /\ remote[c] = 1 /\ remote[d] = 1
         /\ pc[c] = "returned"
         /\ pc[d] \in {"write", "returned"}) =>
            /\ FileAt(res[c].path).exists
            /\ FileAt(res[c].path).data = Synth(opts[c])

\* C8 as stated: a miss with no key configured fails with the configuration
\* error and sends no remote request.
C8_MissingCredential_Original ==
    \A c \in Calls :
        (keyAtMiss[c] # <<>> /\ ~keyAtMiss[c][1]) =>
            /\ pc[c] = "thrown"
            /\ res[c] = Thrown(Wrap(KeyRequiredMsg))
            /\ remote[c] = 0

\* C8 (amended): a miss with no key configured and no client constructed yet
\* fails with the configuration error, sends no remote request and writes
\* nothing; a hit returns the cached path without reaching getOpenAIClient.
C8_MissingCredential ==
    \A c \in Calls :
        /\ keyAtMiss[c] = <<FALSE, FALSE>> =>
              /\ pc[c] = "thrown"
              /\ res[c] = Thrown(Wrap(KeyRequiredMsg))
              /\ remote[c] = 0
              /\ buffer[c] = <<>>
              /\ off[c] = 0
        /\ (Probed(c) /\ found[c]) =>
              /\ pc[c] = "returned" => res[c] = Returned(cachedPath(opts[c]))
              /\ pc[c] # "thrown"
              /\ remote[c] = 0
              /\ keyAtMiss[c] = <<>>

C8_Witness ==
    \E c \in Calls :
        /\ keyAtMiss[c] = <<FALSE, FALSE>>
        /\ pc[c] = "thrown"
        /\ res[c] = Thrown(Wrap(KeyRequiredMsg))
        /\ ~envKey

\* C10: once a call has stored its buffer and returned, the file at the
\* returned path exists and holds that buffer.
C10_CacheCorrectness ==
    \A c \in Calls :
        (pc[c] = "returned" /\ ~found[c]) =>
            /\ AccessProbe(res[c].path)
            /\ fs[res[c].path].data = buffer[c]

Settled == promise.state \in {"fulfilled", "rejected"}

\* C4: the promise of a job leaves pending at most once, keeps the outcome
\* it took, and never takes both a spawn failure and an exit-code failure,
\* whatever the order of the child's events.
C4_SettledOnce ==
    /\ Len(transitions) <= 1
    /\ Settled <=> transitions # <<>>
    /\ Settled => promise = transitions[1]
    /\ ~\E i, j \in DOMAIN transitions :
            transitions[i].kind = "spawn" /\ transitions[j].kind = "exit"
    /\ attempts > 0 => Settled

C4_Witness ==
    /\ errorEmitted /\ closeEmitted
    /\ attempts = 2
    /\ Len(transitions) = 1
    /\ promise.kind = "spawn"

\* C5: a worker that exits with a nonzero code ends the job in a failure
\* that carries that code and everything the worker wrote to stderr, in
\* order; nothing is left unread in the stderr pipe.
C5_WorkerFailure ==
    (closeEmitted /\ child = "exited" /\ exitCode \notin {Code(0), NullCode}) =>
        /\ promise = ExitFailure(exitCode, wroteErr)
        /\ stderr = wroteErr
        /\ errPipe = <<>>

C5_Witness ==
    /\ closeEmitted
    /\ fault = "ok"
    /\ promise = ExitFailure(Code(1), ChunkText(1) \o ChunkText(3))
    /\ wroteOut = ChunkText(2)

\* C6: a settled job succeeded iff the worker exited with code 0, and its
\* value is then the job's outputPath, whether or not the output file exists;
\* every other termination the close event reports is a failure.
C6_WorkerSuccess ==
    /\ closeEmitted => Settled
    /\ Settled =>
          /\ promise.state = "fulfilled" <=> (child = "exited" /\ exitCode = Code(0))
          /\ promise.state = "fulfilled" => promise.value = job.outputPath

C6_Witness ==
    /\ promise = Resolved(job.outputPath)
    /\ job.outputPath \in VideoOutputs
    /\ ~outputExists
    /\ written > 0

\* C7 as stated: a missing interpreter, a missing script and a permission
\* error all end in the spawn-failure outcome.
C7_SpawnFailure_Original ==
    (fault \in {"ENOENT", "EACCES", "noScript"} /\ Settled) => promise.kind = "spawn"

\* C7 (amended): when the interpreter cannot be started (it is missing or
\* not executable) the job ends in the spawn-failure outcome, which carries
\* the spawn error and no exit code, and the job always settles; a missing
\* script is reported by the started interpreter and ends in the exit-code
\* failure carrying its code.
C7_SpawnFailure ==
    /\ []((fault \in {"ENOENT", "EACCES"} /\ Settled) =>
              /\ promise = SpawnFailure("spawn venv/bin/python3 " \o fault)
              /\ "code" \notin DOMAIN promise)
    /\ []((fault = "noScript" /\ Settled) => promise = ExitFailure(Code(2), wroteErr))
    /\ (child = "spawnFailed") ~> Settled

C7_Witness ==
    /\ fault = "ENOENT"
    /\ closeEmitted
    /\ promise.state = "rejected"
    /\ promise.kind = "spawn"

ArtifactCached(o) ==
    /\ fs[cachedPath(o)].exists
    /\ fs[cachedPath(o)].data = Synth(o)

\* C9: a run of the generate command whose speech artifact is cached is not
\* stopped for want of a credential.
C9_LazyCredentialPipeline ==
    (/\ run > 0
     /\ ~envKey
     /\ cliIn.inputText # <<>>
     /\ cliIn.avatar
     /\ ArtifactCached(SpeechRequest(cliIn))) =>
        ~(cpc = "exited" /\ exitedAt = "credential")

\* C11: a file that holds the complete artifact of a fingerprint is left as
\* it is by every step: it is not truncated, rewritten or replaced.
C11_ArtifactImmutability ==
    [][\A o \in TTSOptions :
          (fs[cachedPath(o)].exists /\ fs[cachedPath(o)].data = Synth(o)) =>
              fs'[cachedPath(o)] = fs[cachedPath(o)]]_vars

\* C12: a worker that is blocked on a full stdout or stderr pipe is unblocked,
\* whatever it wrote to the other stream, and a job whose worker has exited
\* reaches a terminal outcome.
C12_StreamDraining ==
    /\ (child = "running" /\ Len(outPipe) = PipeCap) ~> (Len(outPipe) < PipeCap)
    /\ (child = "running" /\ Len(errPipe) = PipeCap) ~> (Len(errPipe) < PipeCap)
    /\ (child = "exited") ~> Settled

C12_Witness ==
    /\ child = "running"
    /\ fault = "ok"
    /\ written < MaxChunks
    /\ Len(outPipe) = PipeCap

Streams == {"stdout", "stderr"}

SinkOf(stream) == SelectSeq(sink, LAMBDA e : e[1] = stream)

SentOf(stream) == SelectSeq(sent, LAMBDA e : e[1] = stream)

PipeOf(stream) == IF stream = "stdout" THEN outPipe ELSE errPipe

Texts2(q) == [i \in 1..Len(q) |-> q[i][2]]

Trimmed(q) == [i \in 1..Len(q) |-> trim(q[i])]

\* C13: on each stream the console holds, in the order the worker wrote them,
\* the chunks that have left the pipe, one line per chunk; when the outcome
\* of the worker's exit is settled every chunk the worker wrote is on the
\* console.
C13_StreamLiveness ==
    /\ \A stream \in Streams :
           Texts2(SinkOf(stream)) \o Trimmed(PipeOf(stream))
               = Trimmed(Texts2(SentOf(stream)))
    /\ Len(sink) + Len(outPipe) + Len(errPipe) = written
    /\ (Settled /\ promise.kind \in {"success", "exit"}) => Len(sink) = Len(sent)

C13_Witness ==
    /\ child = "running"
    /\ Len(SinkOf("stdout")) = 2
    /\ written = 2
    /\ promise = Pending

\* C14: in a run of the generate command the worker is spawned only once
\* textToSpeech has returned a path, the audio path of the job is that path,
\* and a run whose textToSpeech threw spawns no worker.
C14_StageSequencing ==
    run > 0 =>
        /\ spawns > 0 =>
              /\ pc[run] = "returned"
              /\ res[run].kind = "path"
              /\ job.audioPath = res[run].path
              /\ audioPath = res[run].path
        /\ pc[run] = "thrown" =>
              /\ spawns = 0
              /\ promise = NoPromise
              /\ child = "none"

C14_Witness ==
    /\ run > 0
    /\ spawns = 1
    /\ child = "running"
    /\ remote[run] = 1
    /\ job.audioPath = cachedPath(SpeechRequest(cliIn))

\* C15: after a run failed in the video stage, the speech artifact its
\* textToSpeech returned is on disk as it was, and a later run of the same
\* request that reaches the lookup hits it, returns the same path and sends
\* no remote request.
C15_RetryReusesArtifacts ==
    \A i \in stage2Failed :
        /\ fs[res[i].path].exists
        /\ fs[res[i].path].data = (IF found[i] THEN hitData[i] ELSE buffer[i])
        /\ \A j \in Calls :
               (i < j /\ SameTuple(i, j)) =>
                   /\ Probed(j) => found[j]
                   /\ remote[j] = 0
                   /\ pc[j] # "thrown"
                   /\ pc[j] = "returned" => res[j] = res[i]

C15_Witness ==
    \E i \in stage2Failed, j \in Calls :
        /\ i < j
        /\ SameTuple(i, j)
        /\ remote[i] = 1
        /\ fs[res[i].path].data = Synth(opts[i])
        /\ pc[j] = "returned"
        /\ found[j]
        /\ remote[j] = 0

\* C16: a generateSpeech call sends at most one remote request, a
\* generateVideo call spawns at most one worker, a run whose textToSpeech
\* threw spawns none, and once either stage of a run has failed the run sends
\* no remote request, spawns nothing and its job keeps its failure.
C16_NoAutomaticRetry ==
    /\ [](\A c \in Calls : remote[c] <= 1)
    /\ [](spawns <= 1)
    /\ [](run > 0 => (pc[run] = "thrown" => spawns = 0))
    /\ [][(run > 0 /\ run' = run /\ (pc[run] = "thrown" \/ promise.state = "rejected")) =>
              /\ remote' = remote
              /\ spawns' = spawns
              /\ promise' = promise
              /\ child' = child
              /\ pc'[run] = pc[run]]_vars

C16_Witness ==
    /\ run > 0
    /\ cpc = "exited"
    /\ exitedAt = "catch"
    /\ promise.state = "rejected"
    /\ spawns = 1
    /\ remote[run] = 1

StorageFailed(c) == pc[c] = "thrown" /\ buffer[c] # <<>>

\* C17: a call that failed creating the directory or writing the file threw
\* a StorageError that carries the attempted path, and no call that failed
\* for want of a credential or at the remote collaborator threw an error of
\* the same name.
C17_StorageError ==
    \A c \in Calls :
        StorageFailed(c) =>
            /\ res[c].name = "StorageError"
            /\ "path" \in DOMAIN res[c]
            /\ \A d \in Calls :
                   (pc[d] = "thrown" /\ ~StorageFailed(d)) => res[d].name # res[c].name

SameFields(h, g) == h.text = g.text /\ h.voice = g.voice /\ h.model = g.model

\* The number of fields of (text, voice, model) in which two records differ.
Differences(h, g) ==
    (IF h.text = g.text THEN 0 ELSE 1) + (IF h.voice = g.voice THEN 0 ELSE 1)
        + (IF h.model = g.model THEN 0 ELSE 1)

\* C18: distinct tuples (text, voice, model) have distinct pre-digest strings.
C18_SeparatorNotForged ==
    \A i, j \in DOMAIN hashes :
        ~SameFields(hashes[i], hashes[j]) => hashes[i].content # hashes[j].content

\* C19: two tuples that differ in exactly one field have different pre-digest
\* strings, different fingerprints and, in the same directory, different
\* cache paths.
C19_FingerprintSensitivity ==
    \A i, j \in DOMAIN hashes :
        Differences(hashes[i], hashes[j]) = 1 =>
            /\ hashes[i].content # hashes[j].content
            /\ hashes[i].hash # hashes[j].hash
            /\ dirname(hashes[i].outputPath) = dirname(hashes[j].outputPath) =>
                   hashes[i].cachedPath # hashes[j].cachedPath

C19_Witness ==
    \E i, j \in DOMAIN hashes :
        /\ hashes[i].text = "a|b" /\ hashes[j].text = "a|b"
        /\ hashes[i].voice = "c" /\ hashes[j].voice = "b|c"
        /\ hashes[i].model = hashes[j].model
        /\ hashes[i].outputPath = hashes[j].outputPath
        /\ hashes[i].hash # hashes[j].hash

Last(q) == q[Len(q)]

SameDirectory(i, j) == dirname(opts[i].outputPath) = dirname(opts[j].outputPath)

\* C21 as stated: two calls with the same (text, voice, model) return the
\* same location, whatever their destination hints.
C21_LocationByFingerprint_Original ==
    \A i, j \in Calls :
        (SameTuple(i, j) /\ pc[i] = "returned" /\ pc[j] = "returned") =>
            res[i].path = res[j].path

\* C21 (amended): the artifact of a call is at speech_<fingerprint>.mp3 in the
\* directory of the call's outputPath: two calls with the same (text, voice,
\* model) use the same file name, and the same location exactly when their
\* outputPaths have the same directory; then a call made after the other
\* returned is a hit.
C21_LocationByFingerprint ==
    \A i, j \in Calls :
        (SameTuple(i, j) /\ pc[i] = "returned" /\ pc[j] = "returned") =>
            /\ Last(res[i].path) = Last(res[j].path)
            /\ dirname(res[i].path) = dirname(opts[i].outputPath)
            /\ (res[i].path = res[j].path) <=> SameDirectory(i, j)
            /\ (i \in after[j] /\ SameDirectory(i, j)) => found[j]

C21_Witness ==
    \E i, j \in Calls :
        /\ SameTuple(i, j)
        /\ pc[i] = "returned" /\ pc[j] = "returned"
        /\ i \in after[j]
        /\ ~SameDirectory(i, j)
        /\ res[i].path # res[j].path
        /\ remote[i] = 1 /\ remote[j] = 1

\* Whether flag, followed by value, occurs in vector.
Passes(vector, flag, value) ==
    \E k \in 1..(Len(vector) - 1) : vector[k] = flag /\ vector[k + 1] = value

\* C22: the worker is given --image, --audio, --output, --fps and --steps with
\* the job's values in that order, and --lip-weight and --cfg-scale with the
\* job's values whenever the job sets them.
C22_WorkerArguments ==
    spawns > 0 =>
        /\ Len(args) >= 11
        /\ SubSeq(args, 2, 11) =
               <<"--image", job.imagePath, "--audio", job.audioPath,
                 "--output", job.outputPath,
                 "--fps", toString(OrDefault(job.fps, 25)),
                 "--steps", toString(OrDefault(job.steps, 40))>>
        /\ job.lipWeight # Undefined =>
               Passes(args, "--lip-weight", toString(job.lipWeight[1]))
        /\ job.cfgScale # Undefined =>
               Passes(args, "--cfg-scale", toString(job.cfgScale[1]))

\* C23: the probe of a call never ends the call in an error; the probe and
\* the return of a hit change no file, no directory, no client and send no
\* request; a hit returns the cached path whatever the file holds.
C23_LookupNeverFails ==
    /\ [][\A c \in Calls : pc[c] = "access" => pc'[c] \in {"access", "accessed"}]_vars
    /\ [][\A c \in Calls :
             (\/ pc[c] = "access" /\ pc'[c] # pc[c]
              \/ pc[c] = "accessed" /\ found[c] /\ pc'[c] # pc[c]) =>
                 /\ fs' = fs
                 /\ dirs' = dirs
                 /\ openaiClient' = openaiClient
                 /\ built' = built
                 /\ remote' = remote]_vars
    /\ [](\A c \in Calls :
             (Probed(c) /\ found[c]) =>
                 /\ pc[c] \in {"accessed", "returned"}
                 /\ pc[c] = "returned" => res[c] = Returned(cachedPath(opts[c])))

C23_Witness ==
    \E c \in Calls :
        /\ found[c]
        /\ pc[c] = "returned"
        /\ IsStrictPrefix(hitData[c], Synth(opts[c]))

\* C24: in one process at most one client is constructed, only in the step of
\* a call that missed the cache; once there is a client it stays, and every
\* remote request is sent with it.
C24_SingleSharedClient ==
    /\ [](built <= 1)
    /\ [](openaiClient <=> built = 1)
    /\ [](\A c \in Calls : remote[c] > 0 => openaiClient)
    /\ [][openaiClient => openaiClient']_vars
    /\ [][built' # built =>
             \E c \in Calls : pc[c] = "accessed" /\ ~found[c] /\ pc'[c] = "remote"]_vars

C24_Witness ==
    /\ built = 1
    /\ openaiClient
    /\ \A c \in Calls : remote[c] = 1

RECURSIVE Concat(_)
Concat(q) == IF q = <<>> THEN "" ELSE Head(q) \o Concat(Tail(q))

\* The chunks of a stream that have been read, as the worker wrote them.
ReadOf(stream) == Texts2(SubSeq(SentOf(stream), 1, Len(SinkOf(stream))))

\* C25: each accumulator holds the chunks read from its own stream, in the
\* order the worker wrote them, and nothing else; the console holds the same
\* chunks (trimmed) in the same order per stream; what is still to be read
\* follows in the pipe.
C25_PerStreamOrdering ==
    /\ stdout = Concat(ReadOf("stdout"))
    /\ stderr = Concat(ReadOf("stderr"))
    /\ stdout \o Concat(outPipe) = wroteOut
    /\ stderr \o Concat(errPipe) = wroteErr
    /\ \A stream \in Streams : Texts2(SinkOf(stream)) = Trimmed(ReadOf(stream))

C25_Witness ==
    /\ Len(sink) >= 2
    /\ sent[1][1] = "stdout" /\ sent[2][1] = "stderr"
    /\ sink[1][1] = "stderr" /\ sink[2][1] = "stdout"
    /\ stdout = sent[1][2]
    /\ stderr = sent[2][2]

StageFailed == run > 0 /\ (pc[run] = "thrown" \/ promise.state = "rejected")

\* C26: a run whose textToSpeech threw or whose generateVideo rejected never
\* prints the success report and never ends with status 0; it is at the
\* catch of the generate action or has exited there with status 1, and the
\* only way it leaves the stage is that exit.
C26_ErrorsNotSwallowed ==
    /\ [](StageFailed =>
              /\ ~reported
              /\ exitStatus # <<0>>
              /\ \/ cpc = "speech" /\ pc[run] = "thrown" /\ exitStatus = <<>>
                 \/ cpc = "video" /\ promise.state = "rejected" /\ exitStatus = <<>>
                 \/ cpc = "exited" /\ exitStatus = <<1>> /\ exitedAt = "catch")
    /\ [][(StageFailed /\ run' = run) => cpc' \in {cpc, "exited"}]_vars

C26_Witness ==
    /\ run > 0
    /\ pc[run] = "thrown"
    /\ remote[run] = 1
    /\ cpc = "exited"
    /\ exitStatus = <<1>>
    /\ ~reported

\* C27: the promise is settled only in the step of an 'error' or a 'close'
\* event; while the worker is running neither has occurred and the job is
\* pending, however much the worker has written and however long it runs.
C27_NoTimeout ==
    /\ [](Settled => (errorEmitted \/ closeEmitted))
    /\ [](child = "running" => (promise = Pending /\ ~errorEmitted /\ ~closeEmitted))
    /\ [][(promise # NoPromise /\ promise' # promise /\ promise' # NoPromise) =>
              (errorEmitted' # errorEmitted \/ closeEmitted' # closeEmitted)]_vars

C27_Witness ==
    /\ child = "running"
    /\ written = MaxChunks
    /\ outPipe = <<>> /\ errPipe = <<>>
    /\ Len(sink) = MaxChunks
    /\ promise = Pending

\* C28: after a call that missed has failed, and no other call has used the
\* same location, no file is at the location.
C28_NoArtifactAfterFailure ==
    \A c \in Calls :
        (/\ pc[c] = "thrown"
         /\ ~found[c]
         /\ \A d \in Calls \ {c} :
                pc[d] = "idle" \/ cachedPath(opts[d]) # cachedPath(opts[c])) =>
            ~fs[cachedPath(opts[c])].exists

\* C29: the step in which a call fails for want of a credential leaves the
\* client unset and constructs none; a call that misses with a credential
\* and no client constructs one and sends its request; a call that misses
\* when there is a client sends its request although the credential is gone.
C29_FailedInitLeavesNoState ==
    /\ [][\A c \in Calls :
             (pc[c] = "accessed" /\ pc'[c] = "thrown") =>
                 (~openaiClient /\ ~openaiClient' /\ built' = built)]_vars
    /\ [](\A c \in Calls :
             keyAtMiss[c] = <<TRUE, FALSE>> =>
                 (remote[c] = 1 /\ openaiClient /\ res[c] # Thrown(Wrap(KeyRequiredMsg))))
    /\ [](\A c \in Calls :
             keyAtMiss[c] = <<FALSE, TRUE>> =>
                 (remote[c] = 1 /\ built = 1 /\ res[c] # Thrown(Wrap(KeyRequiredMsg))))

C29_Witness ==
    \E i, j \in Calls :
        /\ i \in after[j]
        /\ keyAtMiss[i] = <<FALSE, FALSE>>
        /\ res[i] = Thrown(Wrap(KeyRequiredMsg))
        /\ keyAtMiss[j] = <<TRUE, FALSE>>
        /\ remote[j] = 1
        /\ built = 1

\* C30: a run of the generate command spawns the worker only with the parsed
\* --fps and --steps, both positive integers, and passes them as decimal
\* text; a run whose --fps or --steps is not a number or is not positive
\* spawns nothing and, once textToSpeech has returned, exits with status 1;
\* for the same job without fps and steps generateVideo passes 25 and 40.
C30_ValidatedParameters ==
    run > 0 =>
        LET fps == parseInt(cliIn.fps)
            steps == parseInt(cliIn.steps)
        IN  /\ spawns > 0 =>
                  /\ job.fps = fps /\ job.steps = steps
                  /\ fps # NaN /\ steps # NaN
                  /\ fps[1] \in Nat \ {0}
                  /\ steps[1] \in Nat \ {0}
                  /\ args[9] = toString(fps[1])
                  /\ args[11] = toString(steps[1])
                  /\ LET bare == Args([job EXCEPT !.fps = Undefined, !.steps = Undefined])
                     IN  bare[9] = "25" /\ bare[11] = "40"
            /\ (Invalid(fps) \/ Invalid(steps)) =>
                  /\ spawns = 0
                  /\ cpc \notin {"video", "done"}
                  /\ pc[run] = "returned" =>
                         (cpc = "speech" \/ (cpc = "exited" /\ exitStatus = <<1>>))
            /\ exitedAt \in {"fps", "steps"} =>
                  (exitStatus = <<1>> /\ spawns = 0 /\ ~reported)

C30_Witness ==
    /\ run > 0
    /\ exitedAt = "steps"
    /\ cliIn.steps = <<"0">>
    /\ parseInt(cliIn.fps) = <<25>>
    /\ pc[run] = "returned"
    /\ spawns = 0
    /\ exitStatus = <<1>>

====
